---------------------------- MODULE Spec2Model ----------------------------
(***************************************************************************)
(* Sparse N-dimensional matrix of src/src/matrix.h: an ordered map from    *)
(* coordinate vectors to values, indexed through chained proxy objects     *)
(* that share one coordinate accumulator, and walked by a forward          *)
(* iterator.  src/src/main.cpp is the reference program.                   *)
(***************************************************************************)
EXTENDS Integers, Sequences, FiniteSets, TLC

\* Template arguments of the matrix.
N == 2
default_value == 0

\* Bounds of the model: largest coordinate and value a caller supplies, and
\* the largest number of cells the store is filled with.
MaxCoord == 1
MaxVal == 2
MaxSize == 3
\* The same, where the model also keeps the proxies alive or records the
\* writes to a coordinate.
MaxHeld == 2
\* The same, where it does both.
MaxShared == 1

Coord == 0..MaxCoord
Val == 0..MaxVal
\* Longest accumulator the model lets a caller build.
MaxLen == N + 1

VARIABLES
    map_,       \* std::map<vector_t, T>: the cells, in the order of the tree
    vector_,    \* the coordinate accumulator shared by the matrix and its proxies
    proxies,    \* the template levels Index of the Proxy objects now alive
    it_,        \* the map iterator held by the matrix::iterator of the caller
    ref,        \* what the T & returned by the last kept operator= refers to
    lastOp,     \* the operation performed last, with its argument and result
    watch,      \* a coordinate picked at the start, whose writes are recorded
    lastW,      \* <<>> while watch was never written, else <<value written last>>
    given,      \* <<>>, or the coordinates supplied to the newest proxy of each level
    loop,       \* where the caller's range-for loop stands
    walk,       \* the tuples the running range-for loop has produced
    pc, i, j    \* main(): the statement to run next and its loop counters

objVars == <<map_, vector_, proxies, it_, ref>>
callerVars == <<loop, walk, pc, i, j>>
vars == <<map_, vector_, proxies, it_, ref, lastOp, watch, lastW, given,
          loop, walk, pc, i, j>>

----------------------------------------------------------------------------
\* std::vector<size_t> comparison: lexicographic, a proper prefix is smaller.
RECURSIVE VecLessFrom(_, _, _)
VecLessFrom(a, b, n) ==
    IF n > Len(b) THEN FALSE
    ELSE IF n > Len(a) THEN TRUE
    ELSE IF a[n] < b[n] THEN TRUE
    ELSE IF b[n] < a[n] THEN FALSE
    ELSE VecLessFrom(a, b, n + 1)

\* A comparison that takes the last coordinate as the most significant.
VecLessBackwards(a, b) ==
    VecLessFrom([n \in 1..Len(a) |-> a[Len(a) + 1 - n]],
                [n \in 1..Len(b) |-> b[Len(b) + 1 - n]], 1)

VecLess(a, b) == VecLessFrom(a, b, 1)

\* std::map::lower_bound: position of the first cell whose key is not less
\* than k; Len(m) + 1 is the end position.
RECURSIVE LowerBoundFrom(_, _, _)
LowerBoundFrom(m, k, p) ==
    IF p > Len(m) THEN p
    ELSE IF VecLess(m[p].first, k) THEN LowerBoundFrom(m, k, p + 1)
    ELSE p

LowerBound(m, k) == LowerBoundFrom(m, k, 1)

End(m) == Len(m) + 1

\* A find that trusts lower_bound without comparing the key it lands on.
FindNoCompare(m, k) == LowerBound(m, k)

\* std::map::find: the position of the cell with key k, or the end position.
Find(m, k) ==
    LET p == LowerBound(m, k)
    IN  IF p <= Len(m) /\ ~VecLess(k, m[p].first) THEN p ELSE End(m)

\* An emplace that puts a new cell behind all others, whatever its key.
EmplaceAtEnd(m, k, value) ==
    IF \E p \in 1..Len(m) : m[p].first = k
    THEN m
    ELSE Append(m, [first |-> k, second |-> value])

\* std::map::emplace: inserts the cell at its place in the order unless the
\* key is already there, in which case the map is left as it is.
Emplace(m, k, value) ==
    LET p == LowerBound(m, k)
    IN  IF p <= Len(m) /\ ~VecLess(k, m[p].first)
        THEN m
        ELSE SubSeq(m, 1, p - 1) \o <<[first |-> k, second |-> value]>>
                 \o SubSeq(m, p, Len(m))

\* An erase that removes the cell lower_bound lands on, whatever its key.
EraseLowerBound(m, k) ==
    LET p == LowerBound(m, k)
    IN  IF p = End(m) THEN m
        ELSE SubSeq(m, 1, p - 1) \o SubSeq(m, p + 1, Len(m))

\* std::map::erase(key): removes the cell with key k if there is one.
Erase(m, k) ==
    LET p == Find(m, k)
    IN  IF p = End(m) THEN m
        ELSE SubSeq(m, 1, p - 1) \o SubSeq(m, p + 1, Len(m))

\* Proxy::operator const T &: the value read at accumulator k.
Get(m, k) ==
    LET it == Find(m, k)
    IN  IF it = End(m) THEN default_value ELSE m[it].second

\* An operator= that stores the default value like any other.
AssignNoErase(m, k, value) == Emplace(m, k, value)

\* Proxy::operator=: the store after assigning value at accumulator k.
Assign(m, k, value) ==
    IF value = default_value THEN Erase(m, k) ELSE Emplace(m, k, value)

\* matrix::size
size(m) == Len(m)

Keys(m) == {m[p].first : p \in 1..Len(m)}

\* vector_to_tuple<N>: the first N coordinates of v followed by value.
vector_to_tuple(v, value) == [n \in 1..(N + 1) |-> IF n <= N THEN v[n] ELSE value]

NoRef == [to |-> "none"]
NoIt == [at |-> "none"]
EndIt == [at |-> "end"]
NodeIt(m, p) == IF p <= Len(m) THEN [at |-> "node", first |-> m[p].first] ELSE EndIt

\* The T & that Proxy::operator= returns: the proxy's own default_value_ after
\* an erase, else the value of the cell the emplace found or made.
AssignRet(k, value) ==
    IF value = default_value
    THEN [to |-> "default_value_"]
    ELSE [to |-> "second", first |-> k]

\* The record of the coordinates that the caller supplied, step by step, to
\* the expression that made the proxy of each level up to N; <<>> where the
\* model keeps no such record.
NoGiven == <<>>
GivenOf(Idx) == IF given = NoGiven THEN <<>> ELSE given[Idx]
GivenTo(Idx, coords) ==
    IF given = NoGiven \/ Idx > N THEN given ELSE [given EXCEPT ![Idx] = coords]

----------------------------------------------------------------------------
\* The operations of the matrix, of its proxies and of its iterator.  What
\* becomes of the proxy a read or a write is called on is the caller's
\* business: a temporary dies with its full expression, a named one lives on.

\* A matrix::operator[] that seeds the accumulator without clearing it.
IndexNoClear(index) ==
    /\ vector_' = Append(vector_, index)
    /\ proxies' = proxies \cup {1}
    /\ lastOp' = [op |-> "index"]
    /\ given' = GivenTo(1, <<index>>)
    /\ UNCHANGED <<map_, it_, ref, watch, lastW>>

\* matrix::operator[]: clears the accumulator, seeds it, returns a Proxy<1>.
Index(index) ==
    /\ vector_' = <<index>>
    /\ proxies' = proxies \cup {1}
    /\ lastOp' = [op |-> "index"]
    /\ given' = GivenTo(1, <<index>>)
    /\ UNCHANGED <<map_, it_, ref, watch, lastW>>

\* A Proxy<Idx>::operator[] that returns the next proxy without the append.
ProxyIndexNoPush(Idx, index) ==
    /\ Idx \in proxies
    /\ proxies' = proxies \cup {Idx + 1}
    /\ lastOp' = [op |-> "chain"]
    /\ given' = GivenTo(Idx + 1, Append(GivenOf(Idx), index))
    /\ UNCHANGED <<map_, vector_, it_, ref, watch, lastW>>

\* Proxy<Idx>::operator[]: appends to the accumulator, returns a Proxy<Idx + 1>.
ProxyIndex(Idx, index) ==
    /\ Idx \in proxies
    /\ vector_' = Append(vector_, index)
    /\ proxies' = proxies \cup {Idx + 1}
    /\ lastOp' = [op |-> "chain"]
    /\ given' = GivenTo(Idx + 1, Append(GivenOf(Idx), index))
    /\ UNCHANGED <<map_, it_, ref, watch, lastW>>

\* A read that looks the cell up with std::map::operator[], which makes it.
ProxyReadInserting(Idx) ==
    /\ Idx \in proxies
    /\ Idx = N
    /\ map_' = Emplace(map_, vector_, default_value)
    /\ lastOp' = [op |-> "read", ret |-> Get(map_, vector_)]
    /\ UNCHANGED <<vector_, it_, ref, watch, lastW, given>>

\* Proxy<Idx>::operator const T &, which compiles only for Idx = N.
ProxyRead(Idx) ==
    /\ Idx \in proxies
    /\ Idx = N
    /\ lastOp' = [op |-> "read", ret |-> Get(map_, vector_)]
    /\ UNCHANGED <<map_, vector_, it_, ref, watch, lastW, given>>

\* Proxy<Idx>::operator=, which compiles only for Idx = N.  keep: the caller
\* binds the returned reference.  An erase ends the life of the references
\* and iterators to the erased cell.
ProxyAssign(Idx, value, keep) ==
    LET erased == value = default_value /\ Find(map_, vector_) # End(map_)
    IN  /\ Idx \in proxies
        /\ Idx = N
        /\ map_' = Assign(map_, vector_, value)
        /\ ref' = IF keep THEN AssignRet(vector_, value)
                  ELSE IF erased /\ ref = [to |-> "second", first |-> vector_]
                       THEN NoRef ELSE ref
        /\ it_' = IF erased /\ it_ = [at |-> "node", first |-> vector_]
                  THEN NoIt ELSE it_
        /\ lastOp' = [op |-> "assign", arg |-> value,
                      had |-> Find(map_, vector_) # End(map_)]
        /\ lastW' = IF vector_ = watch THEN <<value>> ELSE lastW
        /\ UNCHANGED <<vector_, watch, given>>

\* An assignment through the T & that operator= returned for a stored cell.
RefWrite(value) ==
    /\ ref.to = "second"
    /\ map_' = [map_ EXCEPT ![Find(map_, ref.first)].second = value]
    /\ lastOp' = [op |-> "refwrite", arg |-> value]
    /\ UNCHANGED <<vector_, proxies, it_, ref, watch, lastW, given>>

\* matrix::size
Size ==
    /\ lastOp' = [op |-> "size", ret |-> size(map_)]
    /\ UNCHANGED <<objVars, watch, lastW, given>>

\* matrix::begin
Begin ==
    /\ it_' = NodeIt(map_, 1)
    /\ lastOp' = [op |-> "begin"]
    /\ UNCHANGED <<map_, vector_, proxies, ref, watch, lastW, given>>

\* iterator::operator!= against matrix::end()
NotEnd ==
    /\ it_ # NoIt
    /\ lastOp' = [op |-> "neq", ret |-> ~(it_ = NodeIt(map_, End(map_)))]
    /\ UNCHANGED <<objVars, watch, lastW, given>>

\* iterator::operator*: vector_to_tuple asserts that the key has N
\* coordinates; where the assertion is compiled out, the missing ones are
\* read past the end of the vector and may be anything.
Deref ==
    /\ it_.at = "node"
    /\ LET c == map_[Find(map_, it_.first)]
       IN  IF Len(c.first) >= N
           THEN lastOp' = [op |-> "deref", ret |-> vector_to_tuple(c.first, c.second)]
           ELSE \/ lastOp' = [op |-> "abort"]
                \/ \E pad \in [1..N -> Coord] :
                       lastOp' = [op |-> "deref", ret |->
                           vector_to_tuple([n \in 1..N |-> IF n <= Len(c.first)
                               THEN c.first[n] ELSE pad[n]], c.second)]
    /\ UNCHANGED <<objVars, watch, lastW, given>>

\* An operator++ that steps over the cell after the current one.
IncTwice ==
    /\ it_.at = "node"
    /\ it_' = NodeIt(map_, Find(map_, it_.first) + 2)
    /\ lastOp' = [op |-> "inc"]
    /\ UNCHANGED <<map_, vector_, proxies, ref, watch, lastW, given>>

\* iterator::operator++
Inc ==
    /\ it_.at = "node"
    /\ it_' = NodeIt(map_, Find(map_, it_.first) + 1)
    /\ lastOp' = [op |-> "inc"]
    /\ UNCHANGED <<map_, vector_, proxies, ref, watch, lastW, given>>

Running == lastOp.op # "abort"

----------------------------------------------------------------------------
\* A caller that keeps to the contract: every indexing expression supplies N
\* coordinates and is finished before the next one starts, so the proxies
\* are temporaries that die with their full expression, and the store is
\* not written while a range-for loop walks it.

Newest == CHOOSE k \in proxies : \A l \in proxies : l <= k

Idle == Running /\ loop = "none" /\ pc = "none"

\* A statement outside the range-for loop: what the loop produced is gone.
Stmt == walk' = <<>> /\ UNCHANGED <<loop, pc, i, j>>

\* The model stops filling the store at max cells.
Fits(value, max) ==
    (value # default_value /\ Find(map_, vector_) = End(map_)) => Len(map_) < max

ExprIndex ==
    \E index \in Coord :
        /\ Idle /\ proxies = {}
        /\ Index(index)
        /\ Stmt

ExprChain ==
    \E index \in Coord :
        /\ Idle /\ proxies # {} /\ Newest < N
        /\ ProxyIndex(Newest, index)
        /\ Stmt

ExprRead ==
    /\ Idle /\ proxies # {}
    /\ ProxyRead(Newest)
    /\ proxies' = {}
    /\ Stmt

ExprAssign ==
    \E value \in Val :
        /\ Idle /\ proxies # {}
        /\ Fits(value, MaxSize)
        /\ ProxyAssign(Newest, value, FALSE)
        /\ proxies' = {}
        /\ Stmt

\* A full expression that ends before its read or write, as in `m[a];`.
ExprDrop ==
    /\ Idle /\ proxies # {}
    /\ proxies' = {}
    /\ lastOp' = [op |-> "drop"]
    /\ UNCHANGED <<map_, vector_, it_, ref, watch, lastW, given>>
    /\ Stmt

ExprSize ==
    /\ Idle /\ proxies = {}
    /\ Size
    /\ Stmt

\* The range-for loop of main.cpp:23, `for (auto v : matrix)`.
ForBegin ==
    /\ Running /\ loop = "none" /\ proxies = {}
    /\ Begin
    /\ loop' = "test"
    /\ walk' = <<>>
    /\ UNCHANGED <<pc, i, j>>

ForTest ==
    /\ Running /\ loop = "test"
    /\ NotEnd
    /\ loop' = IF lastOp'.ret THEN "body" ELSE "none"
    /\ UNCHANGED <<walk, pc, i, j>>

ForDeref ==
    /\ Running /\ loop = "body"
    /\ Deref
    /\ walk' = IF lastOp'.op = "deref" THEN Append(walk, lastOp'.ret) ELSE walk
    /\ loop' = "step"
    /\ UNCHANGED <<pc, i, j>>

ForInc ==
    /\ Running /\ loop = "step"
    /\ Inc
    /\ loop' = "test"
    /\ UNCHANGED <<walk, pc, i, j>>

InitObj ==
    /\ map_ = <<>>
    /\ vector_ = <<>>
    /\ proxies = {}
    /\ it_ = NoIt
    /\ ref = NoRef
    /\ lastOp = [op |-> "matrix"]
    /\ lastW = <<>>
    /\ loop = "none"
    /\ walk = <<>>

Init ==
    /\ InitObj
    /\ watch = <<>>
    /\ given = NoGiven
    /\ pc = "none" /\ i = 0 /\ j = 0

Next ==
    \/ ExprIndex \/ ExprChain \/ ExprRead \/ ExprAssign \/ ExprDrop \/ ExprSize
    \/ ForBegin \/ ForTest \/ ForDeref \/ ForInc

Spec == Init /\ [][Next]_vars

\* The same caller, with the writes to one coordinate recorded.
InitHist ==
    /\ InitObj
    /\ watch \in [1..N -> Coord]
    /\ given = NoGiven
    /\ pc = "none" /\ i = 0 /\ j = 0

HistAssign ==
    \E value \in Val :
        /\ Idle /\ proxies # {}
        /\ Fits(value, MaxHeld)
        /\ ProxyAssign(Newest, value, FALSE)
        /\ proxies' = {}
        /\ Stmt

NextHist ==
    ExprIndex \/ ExprChain \/ ExprRead \/ HistAssign \/ ExprDrop \/ ExprSize

SpecHist == InitHist /\ [][NextHist]_vars

----------------------------------------------------------------------------
\* The contract-keeping caller, when it also binds the T & that operator=
\* returns and assigns through it while the cell referred to is alive.
\* (The reference returned after an erase is to the default_value_ of the
\* temporary proxy and dies with it.)

ExprAssignKeep ==
    \E value \in Val :
        /\ Idle /\ proxies # {}
        /\ Fits(value, MaxSize)
        /\ ProxyAssign(Newest, value, TRUE)
        /\ proxies' = {}
        /\ Stmt

ExprRefWrite ==
    \E value \in Val :
        /\ Idle /\ proxies = {}
        /\ RefWrite(value)
        /\ Stmt

NextRef ==
    \/ ExprIndex \/ ExprChain \/ ExprRead \/ ExprAssign \/ ExprSize
    \/ ExprAssignKeep \/ ExprRefWrite

SpecRef == Init /\ [][NextRef]_vars

----------------------------------------------------------------------------
\* A caller that keeps proxies in named objects (auto p = m[a][b];) and uses
\* them in any order the types admit: every Proxy<Idx> can be indexed, a
\* Proxy<N> read and assigned, and the matrix indexed afresh, at any time.

HeldIndex ==
    \E index \in Coord :
        /\ Idle
        /\ Index(index)
        /\ Stmt

HeldChain ==
    \E Idx \in proxies, index \in Coord :
        /\ Idle
        /\ Idx <= N /\ Len(vector_) < MaxLen
        /\ ProxyIndex(Idx, index)
        /\ Stmt

HeldRead ==
    /\ Idle
    /\ ProxyRead(N)
    /\ UNCHANGED proxies
        /\ Stmt

HeldAssign ==
    \E value \in Val :
        /\ Idle
        /\ Fits(value, MaxHeld)
        /\ ProxyAssign(N, value, FALSE)
        /\ UNCHANGED proxies
        /\ Stmt

HeldSize ==
    /\ Idle
    /\ Size
    /\ Stmt

HeldBegin ==
    /\ Idle
    /\ Begin
    /\ loop' = "test"
    /\ walk' = <<>>
    /\ UNCHANGED <<pc, i, j>>

NextHeld ==
    \/ HeldIndex \/ HeldChain \/ HeldRead \/ HeldAssign \/ HeldSize
    \/ HeldBegin \/ ForTest \/ ForDeref \/ ForInc

SpecHeld == Init /\ [][NextHeld]_vars

----------------------------------------------------------------------------
\* The two callers again, with the coordinates supplied to each proxy on
\* record: the one that finishes every expression before the next, and the
\* one that holds on to its proxies.

InitGiven ==
    /\ InitObj
    /\ watch = <<>>
    /\ given = [Idx \in 1..N |-> <<>>]
    /\ pc = "none" /\ i = 0 /\ j = 0

NextGiven ==
    ExprIndex \/ ExprChain \/ ExprRead \/ HistAssign \/ ExprDrop

SpecGiven == InitGiven /\ [][NextGiven]_vars

\* This caller stops indexing when the accumulator holds N coordinates.
SharedChain ==
    \E Idx \in proxies, index \in Coord :
        /\ Idle
        /\ Idx <= N /\ Len(vector_) < N
        /\ ProxyIndex(Idx, index)
        /\ Stmt

SharedAssign ==
    \E value \in Val :
        /\ Idle
        /\ Fits(value, MaxShared)
        /\ ProxyAssign(N, value, FALSE)
        /\ UNCHANGED proxies
        /\ Stmt

NextShared ==
    HeldIndex \/ SharedChain \/ HeldRead \/ SharedAssign

SpecShared == InitGiven /\ [][NextShared]_vars

----------------------------------------------------------------------------
\* main() of src/src/main.cpp, one call of the matrix per step.  pc is the
\* line of the statement being run.

\* The temporaries of a statement `matrix[a][b] ...` up to its Proxy<N>.
MainIndex(a, b) ==
    /\ \/ proxies = {} /\ Index(a)
       \/ proxies # {} /\ Newest < N /\ ProxyIndex(Newest, b)
    /\ UNCHANGED callerVars

\* main.cpp:8, matrix[i][i] = i
MainL8 ==
    /\ pc = "L8"
    /\ \/ MainIndex(i, i)
       \/ /\ N \in proxies
          /\ ProxyAssign(N, i, FALSE)
          /\ proxies' = {}
          /\ pc' = "L9"
          /\ UNCHANGED <<loop, walk, i, j>>

\* main.cpp:9, matrix[i][9 - i] = i, and the loop of line 7
MainL9 ==
    /\ pc = "L9"
    /\ \/ MainIndex(i, 9 - i)
       \/ /\ N \in proxies
          /\ ProxyAssign(N, i, FALSE)
          /\ proxies' = {}
          /\ IF i + 1 < 10
             THEN pc' = "L8" /\ i' = i + 1 /\ j' = j
             ELSE pc' = "L14" /\ i' = 1 /\ j' = 1
          /\ UNCHANGED <<loop, walk>>

\* main.cpp:14, the read of matrix[i][j], and the loops of lines 12 and 13
MainL14 ==
    /\ pc = "L14"
    /\ \/ MainIndex(i, j)
       \/ /\ N \in proxies
          /\ ProxyRead(N)
          /\ proxies' = {}
          /\ IF j + 1 < 9 THEN pc' = pc /\ i' = i /\ j' = j + 1
             ELSE IF i + 1 < 9 THEN pc' = pc /\ i' = i + 1 /\ j' = 1
             ELSE pc' = "L20" /\ i' = i + 1 /\ j' = j + 1
          /\ UNCHANGED <<loop, walk>>

\* main.cpp:20, matrix.size()
MainL20 ==
    /\ pc = "L20"
    /\ Size
    /\ pc' = "L23"
    /\ UNCHANGED <<loop, walk, i, j>>

\* main.cpp:23-27, the range-for loop over the matrix
MainL23 ==
    /\ pc = "L23"
    /\ \/ ForBegin
       \/ ForTest /\ lastOp'.ret
       \/ ForDeref
       \/ ForInc

\* main.cpp:28, reached when the range-for loop is over
MainL28 ==
    /\ pc = "L23" /\ loop = "test"
    /\ NotEnd /\ ~lastOp'.ret
    /\ loop' = "none"
    /\ pc' = "L28"
    /\ UNCHANGED <<walk, i, j>>

InitMain ==
    /\ InitObj
    /\ watch = <<>>
    /\ given = NoGiven
    /\ pc = "L8" /\ i = 0 /\ j = 0

NextMain == MainL8 \/ MainL9 \/ MainL14 \/ MainL20 \/ MainL23 \/ MainL28

SpecMain == InitMain /\ [][NextMain]_vars

----------------------------------------------------------------------------
\* C1: after a completed write of a value v other than the default at a
\* coordinate c, whether c was absent or already held another value, a read
\* of c returns v.
C1_ReadAfterWrite ==
    (lastOp.op = "assign" /\ lastOp.arg # default_value)
        => Get(map_, vector_) = lastOp.arg

\* C2: a completed read of a coordinate that was never written returns the
\* default value, whatever was written to or erased at other coordinates.
C2_NeverWrittenReadsDefault ==
    (lastOp.op = "read" /\ vector_ = watch /\ lastW = <<>>)
        => lastOp.ret = default_value

C2_Witness ==
    /\ lastOp.op = "read" /\ vector_ = watch /\ lastW = <<>>
    /\ Len(map_) >= 2

\* C3: after a write of the default value at a coordinate c, present or
\* not, a read of c returns the default, no enumerated cell has the
\* coordinate c, and writing the default at c once more leaves the store
\* as it is.
C3_DefaultWriteErases ==
    (lastOp.op = "assign" /\ lastOp.arg = default_value)
        => /\ Get(map_, vector_) = default_value
           /\ \A p \in 1..Len(map_) : map_[p].first # vector_
           /\ Assign(map_, vector_, default_value) = map_

C3_Witness ==
    /\ lastOp.op = "assign" /\ lastOp.arg = default_value /\ lastOp.had
    /\ Len(map_) >= 1

\* C4: the coordinates held in the store are exactly those whose most
\* recently written value is not the default, each held once, so that
\* size() is their number.
C4_SizeCountsNonDefault ==
    /\ (\E p \in 1..Len(map_) : map_[p].first = watch)
           <=> (lastW # <<>> /\ lastW[1] # default_value)
    /\ size(map_) = Cardinality(Keys(map_))

C4_Witness ==
    /\ lastOp.op = "assign" /\ vector_ = watch /\ lastOp.had
    /\ lastOp.arg # default_value
    /\ size(map_) = 2

\* C5 as stated: in the reference program (value i written at (i,i) and
\* at (i,9-i) for i = 0..9), size() is 20 after the writes.
C5_SizeIs20 ==
    (pc = "L23" /\ lastOp.op = "size") => lastOp.ret = 20

\* C5 as amended: in the reference program size() is 18 after the writes,
\* the two writes of i = 0 being writes of the default value.
C5_SizeIs18 ==
    (pc = "L23" /\ lastOp.op = "size") => lastOp.ret = 18

C5_Witness ==
    /\ pc = "L23" /\ lastOp.op = "size"
    /\ Len(map_) = lastOp.ret
    /\ Get(map_, <<0, 0>>) = default_value /\ Get(map_, <<0, 9>>) = default_value

\* C6 as stated: after the writes of the reference program the reads of
\* (1,1), (1,8), (5,5) and (5,4) return 1, 1, 5 and 0.
C6_ReadsAsStated ==
    (pc \in {"L14", "L20"} /\ lastOp.op = "read")
        => /\ vector_ = <<1, 1>> => lastOp.ret = 1
           /\ vector_ = <<1, 8>> => lastOp.ret = 1
           /\ vector_ = <<5, 5>> => lastOp.ret = 5
           /\ vector_ = <<5, 4>> => lastOp.ret = 0

\* C6 as amended: after the writes of the reference program the reads of
\* (1,1), (1,8), (5,5) and (5,4) return 1, 1, 5 and 5, (5,4) being the
\* cell (i,9-i) of i = 5.
C6_ReadsOfProgram ==
    (pc \in {"L14", "L20"} /\ lastOp.op = "read")
        => /\ vector_ = <<1, 1>> => lastOp.ret = 1
           /\ vector_ = <<1, 8>> => lastOp.ret = 1
           /\ vector_ = <<5, 5>> => lastOp.ret = 5
           /\ vector_ = <<5, 4>> => lastOp.ret = 5

C6_Witness ==
    /\ pc = "L14" /\ lastOp.op = "read" /\ vector_ = <<5, 4>>
    /\ size(map_) = 18

\* Lexicographic order of the coordinates of two enumerated tuples, the
\* first coordinate the most significant.
LexLess(a, b) ==
    \E n \in 1..N : a[n] < b[n] /\ \A l \in 1..(n - 1) : a[l] = b[l]

\* C7: a walk from begin() to end() yields the coordinates of the cells in
\* strictly ascending lexicographic order, none twice, and when it reaches
\* end() it has yielded every cell of the store.
C7_EnumerationAscending ==
    /\ \A p, q \in 1..Len(walk) : p < q => LexLess(walk[p], walk[q])
    /\ (lastOp.op = "neq" /\ ~lastOp.ret)
           => /\ Len(walk) = size(map_)
              /\ \A p \in 1..Len(map_) :
                     walk[p] = vector_to_tuple(map_[p].first, map_[p].second)

C7_Witness ==
    /\ lastOp.op = "neq" /\ ~lastOp.ret
    /\ Len(walk) = 3

\* C8: no cell of the store holds the default value, whatever writes,
\* through operator= or through the reference it returns, came before.
C8_NoDefaultStored ==
    \A p \in 1..Len(map_) : map_[p].second # default_value

\* C9: every key of the store has exactly N coordinates, whatever index
\* steps and writes the proxies were used for, and no dereference of an
\* iterator fails the assertion of vector_to_tuple.
C9_KeysHaveLengthN ==
    /\ \A p \in 1..Len(map_) : Len(map_[p].first) = N
    /\ lastOp.op # "abort"

\* C10: a write of the default value at a coordinate that is not in the
\* store leaves size() and the enumerated cells as they were.
C10_DefaultWriteAbsentNoOp ==
    [][(lastOp'.op = "assign" /\ lastOp'.arg = default_value /\ ~lastOp'.had)
          => (size(map_') = size(map_) /\ map_' = map_)]_vars

C10_Witness ==
    /\ lastOp.op = "assign" /\ lastOp.arg = default_value /\ ~lastOp.had
    /\ Len(map_) >= 2

\* C11: index steps and reads leave the store as it is, a read of an
\* absent coordinate included; only operator= changes the cells or size().
C11_ReadsLeaveStore ==
    [][/\ lastOp'.op \in {"index", "chain", "read", "drop", "size"}
           => (map_' = map_ /\ size(map_') = size(map_))
       /\ map_' # map_ => lastOp'.op = "assign"]_vars

C11_Witness ==
    /\ lastOp.op = "read" /\ lastOp.ret = default_value
    /\ \A p \in 1..Len(map_) : map_[p].first # vector_
    /\ Len(map_) >= 1

\* C12: when the matrix is indexed afresh while a proxy of an earlier
\* expression is held, that proxy's later read or write works on the
\* accumulator as the later expression left it: the accumulator starts with
\* the coordinate of the latest top-level step, and the read or write acts
\* at the accumulator, which can differ from the coordinates the proxy's
\* own expression supplied.
C12_HeldProxyUsesSharedAccumulator ==
    /\ vector_ # <<>> => vector_[1] = given[1][1]
    /\ lastOp.op = "read" => lastOp.ret = Get(map_, vector_)
    /\ lastOp.op = "assign"
           => ((\E p \in 1..Len(map_) : map_[p].first = vector_)
                   <=> lastOp.arg # default_value)

C12_Witness ==
    /\ lastOp.op = "assign" /\ lastOp.arg # default_value /\ ~lastOp.had
    /\ Len(given[N]) = N /\ Len(vector_) = N
    /\ given[N] # vector_
    /\ given[N] \notin Keys(map_)

\* C13: when every indexing expression is finished before the next one
\* starts, the accumulator at the read or write is the N coordinates
\* supplied to that expression, in their order, whatever the expressions
\* before left in it.
C13_AccumulatorIsSupplied ==
    lastOp.op \in {"read", "assign"}
        => (Len(vector_) = N /\ vector_ = given[N])

C13_Witness ==
    /\ lastOp.op = "read"
    /\ vector_ = given[N]
    /\ lastOp.ret # default_value

\* C14: the accumulator never holds more than N coordinates: once N are
\* supplied no proxy takes a further one.
C14_AtMostNCoordinates ==
    Len(vector_) <= N

\* C15: a walk that starts at begin() is at end() after exactly size()
\* advances and not before; on an empty matrix begin() is end() at once.
C15_EndAfterSizeAdvances ==
    /\ lastOp.op = "neq" => (lastOp.ret <=> Len(walk) < size(map_))
    /\ (lastOp.op = "begin" /\ map_ = <<>>) => it_ = EndIt
    /\ Len(walk) <= size(map_)

C15_Witness ==
    /\ lastOp.op = "neq" /\ ~lastOp.ret
    /\ size(map_) = 2 /\ Len(walk) = 2

\* C16: every tuple a walk yields carries the value that a read of its
\* coordinates returns, and when the walk is over every coordinate whose
\* read is not the default was yielded exactly once.
C16_EnumerationAgreesWithReads ==
    /\ \A p \in 1..Len(walk) :
           Get(map_, SubSeq(walk[p], 1, N)) = walk[p][N + 1]
    /\ (lastOp.op = "neq" /\ ~lastOp.ret)
           => \A c \in [1..N -> Coord] :
                  Get(map_, c) # default_value
                      => Cardinality({p \in 1..Len(walk) : SubSeq(walk[p], 1, N) = c}) = 1

C16_Witness ==
    /\ lastOp.op = "neq" /\ ~lastOp.ret
    /\ Len(walk) = 3
    /\ \E c \in [1..N -> Coord] : Get(map_, c) = default_value

\* C17: a write at a coordinate c, of the default or of any other value,
\* leaves every other coordinate as it was: in the store or not, and with
\* the same value read.
C17_WriteLeavesOthers ==
    [][lastOp'.op = "assign"
          => \A d \in ([1..N -> Coord] \cup Keys(map_) \cup Keys(map_')) \ {vector_} :
                 /\ d \in Keys(map_) <=> d \in Keys(map_')
                 /\ Get(map_', d) = Get(map_, d)]_vars

C17_Witness ==
    /\ lastOp.op = "assign" /\ lastOp.arg # default_value /\ ~lastOp.had
    /\ Len(map_) = 3

=============================================================================
